---------------------------- MODULE Spec2Model ----------------------------
(***************************************************************************)
(* Flight price pipeline: incremental load and change tracking.            *)
(*                                                                         *)
(* State: the process environment (config), the staging table (MySQL       *)
(* staging_flights), the analytics table (PostgreSQL flights_analytics),   *)
(* the pipeline_execution_log, the position of the DAG run (pc) and the    *)
(* results each task returned.  One action per task of the DAG; storage    *)
(* failures are inputs of the actions.                                     *)
(***************************************************************************)
EXTENDS Integers, Sequences, FiniteSets, TLC

VARIABLES
    config,                 \* pipeline_config as read from the environment
    environment,            \* the CSV files and weekdays a run may meet
    clock,                  \* number of ingestion runs started so far
    csv,                    \* rows of the CSV file read by the last ingestion
    faults,                 \* storage failures met so far
    staging,                \* staging_flights, in insertion (id) order
    analytics,              \* flights_analytics, a set of rows, unique per business key
    execution_log,          \* pipeline_execution_log rows
    pc,                     \* next task of the current DAG run
    ingestion_result,       \* dict returned by execute_ingestion
    run,                    \* locals of the last load (classification, faults)
    validation_result,      \* dict returned by execute_validation
    transformation_result,  \* dict returned by execute_transformation
    pass,                   \* locals of the last transformation pass
    health                  \* dict returned by get_pipeline_health_status

vars == <<config, environment, clock, csv, faults, staging, analytics,
          execution_log, pc, ingestion_result, run, validation_result,
          transformation_result, pass, health>>

----------------------------------------------------------------------------
(* Bounds *)

\* Ingestion runs in a behaviour.
MaxRuns == 2
\* Rows of a CSV file.
MaxCsvRows == 2
\* Largest BATCH_SIZE.
MaxBatchSize == 2
\* Storage operations that fail in a behaviour.
MaxFaults == 1
\* Rows staged before the first run of a behaviour.
MaxInitialRows == 1

----------------------------------------------------------------------------
(* Records of the CSV *)

Rec(airline, base, tax, stops) ==
    [airline |-> airline, source |-> "Dhaka", destination |-> "Sylhet",
     date_of_journey |-> "2026-01-05", departure_time |-> "10:00",
     base_fare |-> base, tax_surcharge |-> tax, total_fare |-> base + tax,
     stops |-> stops]

\* Four observations: a flight, the same flight at another fare, another
\* airline's flight, and the first flight with another stop count.
Records ==
    { Rec("Biman", 100, 20, 0), Rec("Biman", 110, 20, 0),
      Rec("novoair", 100, 20, 0), Rec("Biman", 100, 20, 1) }

CsvFiles == UNION { [1..n -> Records] : n \in 0..MaxCsvRows }

----------------------------------------------------------------------------
(* Generic helpers *)

Min(a, b) == IF a < b THEN a ELSE b

NumBatches(n, size) == (n + size - 1) \div size

\* range(0, len, size)[i-1] : i-th slice of iloc[i:i+batch_size]
Batch(rows, i, size) == SubSeq(rows, (i - 1) * size + 1, Min(i * size, Len(rows)))

RECURSIVE Concat(_, _, _)
Concat(batches, keep, i) ==
    IF i > Len(batches) THEN <<>>
    ELSE (IF i \in keep THEN batches[i] ELSE <<>>) \o Concat(batches, keep, i + 1)

Batches(rows, size) ==
    [i \in 1..NumBatches(Len(rows), size) |-> Batch(rows, i, size)]


----------------------------------------------------------------------------
(* Configuration and time *)

\* BATCH_SIZE values of the model (the repository's default is 1000).
BatchSizes == 1..MaxBatchSize

\* deactivate_batch_size, scaled from 1000.
DEACTIVATE_BATCH_SIZE == 1

\* Python's datetime.weekday(): Monday = 0 ... Sunday = 6.
PyWeekdays == 0..6

\* The index of a Python weekday when weeks are counted Sunday = 0,
\* Monday = 1, ..., Saturday = 6.
SundayIndex(py_weekday) == (py_weekday + 1) % 7

FullRefreshDays == 0..6

\* A Wednesday and a Sunday.
RunDays == {2, 6}

\* The DAG is scheduled @daily: run n starts when its data interval ends, so
\* its data_interval_start lies one interval before the wall clock of the
\* run, and datetime.now() inside a task is later than the start of the run.
ExecutionDate(n) == 2 * n - 2

WallClock(n) == 2 * n + 1

\* datetime(1970, 1, 1)
Epoch == 0 - 1

----------------------------------------------------------------------------
(* Fingerprints *)

\* SQL NULL in a record_hash column.
NULL == [alg |-> "NULL"]

\* hashlib digest of the key_fields string; the digest is kept as the pair
\* (algorithm, hashed text), i.e. the hash is collision free.
Digest(algorithm, key_fields) ==
    [alg |-> IF algorithm = "sha256" THEN "sha256" ELSE "md5",
     key_fields |-> key_fields]

HexLength(h) ==
    IF h.alg = "sha256" THEN 64 ELSE IF h.alg = "EMPTY" THEN 0 ELSE 32

\* DataIngestion.generate_record_hash
generate_record_hash(row, algorithm) ==
    Digest(algorithm,
           <<row.airline, row.source, row.destination, row.date_of_journey,
             row.departure_time, row.base_fare, row.total_fare>>)

\* The empty string generate_record_hash returns from its except branch.
EMPTY == [alg |-> "EMPTY"]

HashMutantReturnsNull(row, algorithm, raises) ==
    IF raises THEN NULL ELSE generate_record_hash(row, algorithm)

\* df.apply(self.generate_record_hash, axis=1) on one row: the digest, or
\* the empty string when building or encoding the key string raises.
apply_generate_record_hash(row, algorithm, raises) ==
    IF raises THEN EMPTY ELSE generate_record_hash(row, algorithm)

----------------------------------------------------------------------------
(* Load strategy *)

\* DataIngestion.should_use_incremental_load: TRUE for incremental.
should_use_incremental_load(cfg, py_weekday) ==
    IF ~cfg.USE_INCREMENTAL_LOAD THEN FALSE
    ELSE LET today_weekday == IF py_weekday = 6 THEN 0 ELSE py_weekday
         IN  IF today_weekday = cfg.FULL_REFRESH_DAY THEN FALSE ELSE TRUE

----------------------------------------------------------------------------
(* Staging store *)

IncrementalRowMutantHashesTimestamp(rec, algorithm, now) ==
    [rec |-> rec,
     record_hash |-> Digest(algorithm, <<rec.airline, rec.source,
                                         rec.destination, now>>),
     is_active |-> TRUE, ingestion_timestamp |-> now]

\* A row written by the incremental path: the DataFrame row plus the
\* metadata columns added in load_to_staging_incremental.
IncrementalRow(rec, algorithm, now) ==
    [rec |-> rec, record_hash |-> generate_record_hash(rec, algorithm),
     is_active |-> TRUE, ingestion_timestamp |-> now]

\* A row written by load_to_staging, which sends the data columns only: the
\* tracking columns take the column defaults of the table.
DefaultedRow(rec, now) ==
    [rec |-> rec, record_hash |-> NULL, is_active |-> TRUE,
     ingestion_timestamp |-> now]

ActiveHashesMutantIncludesInactive(table) ==
    { table[i].record_hash :
        i \in { j \in 1..Len(table) : table[j].record_hash # NULL } }

\* SELECT record_hash ... WHERE is_active = TRUE AND record_hash IS NOT NULL
ActiveHashes(table) ==
    { table[i].record_hash :
        i \in { j \in 1..Len(table) :
                  table[j].is_active /\ table[j].record_hash # NULL } }

ReaderMutantIgnoresFailure(table, read_fails) == ActiveHashes(table)

\* DataIngestion.get_existing_hashes: the empty set when the read fails.
get_existing_hashes(table, read_fails) ==
    IF read_fails THEN {} ELSE ActiveHashes(table)

IsNewMutantAll(row, existing_hashes) == TRUE

\* new_records_mask = ~df['record_hash'].isin(existing_hashes)
IsNew(row, existing_hashes) == row.record_hash \notin existing_hashes

NewRecordsMutantDeduplicates(df, existing_hashes) ==
    LET new == SelectSeq(df, LAMBDA row : IsNew(row, existing_hashes))
        distinct == { new[i].record_hash : i \in 1..Len(new) }
    IN  SubSeq(new, 1, Cardinality(distinct))

\* new_records = df[new_records_mask]
NewRecords(df, existing_hashes) ==
    SelectSeq(df, LAMBDA row : IsNew(row, existing_hashes))

\* existing_records = df[~new_records_mask]
ExistingRecords(df, existing_hashes) ==
    SelectSeq(df, LAMBDA row : ~IsNew(row, existing_hashes))

HashesOf(rows) == { rows[i].record_hash : i \in 1..Len(rows) }

DeactivateSetMutantNone(existing_hashes, incoming_hashes) == {}

DeactivateSetMutantIncoming(existing_hashes, incoming_hashes) ==
    existing_hashes \cap incoming_hashes

DeactivateSetMutantWholeBaseline(existing_hashes, incoming_hashes) ==
    existing_hashes

\* hashes_to_deactivate = existing_hashes - incoming_hashes
HashesToDeactivate(existing_hashes, incoming_hashes) ==
    existing_hashes \ incoming_hashes

DeactivateMutantDeletes(table, hashes) ==
    SelectSeq(table, LAMBDA row : row.record_hash \notin hashes)

DeactivateMutantSkipsUpdate(table, hashes) == table

\* UPDATE staging_flights SET is_active = FALSE WHERE record_hash IN (...)
Deactivate(table, hashes) ==
    [i \in 1..Len(table) |->
        IF table[i].record_hash \in hashes
        THEN [table[i] EXCEPT !.is_active = FALSE]
        ELSE table[i]]

\* The rows the batch loop appends: the batches that did not fail.
Committed(rows, size, failed) ==
    Concat(Batches(rows, size), (1..NumBatches(Len(rows), size)) \ failed, 1)

\* The hashes whose UPDATE ran: all of them, or, when batch fail_at raises,
\* those of the fail_at - 1 batches before it.  list(set) has no defined
\* order, so any subset of that size may be the one.
DeactivatedSets(hashes, fail_at) ==
    IF fail_at = 0 THEN {hashes}
    ELSE { d \in SUBSET hashes :
             Cardinality(d) = (fail_at - 1) * DEACTIVATE_BATCH_SIZE }


----------------------------------------------------------------------------
(* Ingestion task *)

NoPass ==
    [use_incremental |-> FALSE, fallback |-> FALSE, loaded |-> 0,
     written |-> <<>>, truncated |-> FALSE]

NoLoad ==
    [today |-> 0, use_incremental |-> FALSE, truncated |-> FALSE,
     baseline |-> {}, existing_hashes |-> {}, incoming_hashes |-> {},
     new_hashes |-> {}, unchanged_hashes |-> {}, new_rows |-> 0,
     hashes_to_deactivate |-> {}, deactivated |-> {}, rows_lost |-> 0,
     fail_at |-> 0, read_failed |-> FALSE, unhashable |-> 0,
     fault |-> FALSE,
     same_csv |-> FALSE, prev_status |-> "NONE", prev_mode |-> "NONE",
     prev_fault |-> FALSE]

NoResult == [status |-> "NONE"]

\* What the previous ingestion left for comparison with this one.
History(file) ==
    [same_csv |-> (clock > 0 /\ file = csv),
     prev_status |-> ingestion_result.status,
     prev_mode |-> IF ingestion_result.status = "SUCCESS"
                   THEN ingestion_result.load_mode ELSE "NONE",
     prev_fault |-> run.fault]

Success(load_mode, total, inserted, updated, unchanged, failed) ==
    [status |-> "SUCCESS", load_mode |-> load_mode, total_records |-> total,
     rows_inserted |-> inserted, rows_updated |-> updated,
     rows_unchanged |-> unchanged, rows_failed |-> failed]

FailedMutantDropsError(error) == [status |-> "FAILED"]

Failed(error) == [status |-> "FAILED", error |-> error]

Count(flag) == IF flag THEN 1 ELSE 0

\* DataIngestion.load_to_staging_incremental, exceptions included, followed
\* by the rest of execute_ingestion on that branch.
LoadIncremental(file, py_weekday, now) ==
    \E read_fails \in BOOLEAN,
       unhashable \in (IF environment.hash_faults
                       THEN SUBSET (1..Len(file)) ELSE {{}}) :
      LET df == [i \in 1..Len(file) |->
                    [IncrementalRow(file[i], config.HASH_ALGORITHM, now)
                       EXCEPT !.record_hash =
                         apply_generate_record_hash(
                             file[i], config.HASH_ALGORITHM,
                             i \in unhashable)]]
          existing_hashes == get_existing_hashes(staging, read_fails)
          new_records == NewRecords(df, existing_hashes)
          existing_records == ExistingRecords(df, existing_hashes)
          batches == NumBatches(Len(new_records), config.BATCH_SIZE)
      IN
      \E failed \in SUBSET (1..batches) :
        LET inserted == Committed(new_records, config.BATCH_SIZE, failed)
            incoming_hashes == HashesOf(df)
            hashes_to_deactivate ==
                HashesToDeactivate(existing_hashes, incoming_hashes)
            updates == NumBatches(Cardinality(hashes_to_deactivate),
                                  DEACTIVATE_BATCH_SIZE)
        IN
        \E fail_at \in 0..updates :
          \E done \in DeactivatedSets(hashes_to_deactivate, fail_at) :
            LET met == Count(read_fails) + Cardinality(failed)
                       + Count(fail_at # 0) + Count(unhashable # {})
            IN
            /\ faults + met <= MaxFaults
            /\ faults' = faults + met
            /\ staging' = Deactivate(staging \o inserted, done)
            /\ ingestion_result' =
                 IF fail_at = 0
                 THEN Success("INCREMENTAL", Len(df), Len(inserted), 0,
                              Len(existing_records), 0)
                 ELSE Failed("Incremental load failed")
            /\ run' = History(file) @@
                 [today |-> py_weekday,
                  use_incremental |-> TRUE, truncated |-> FALSE,
                  baseline |-> ActiveHashes(staging),
                  existing_hashes |-> existing_hashes,
                  incoming_hashes |-> incoming_hashes,
                  new_hashes |-> HashesOf(new_records),
                  unchanged_hashes |-> HashesOf(existing_records),
                  new_rows |-> Len(new_records),
                  hashes_to_deactivate |-> hashes_to_deactivate,
                  deactivated |-> done,
                  rows_lost |-> Len(new_records) - Len(inserted),
                  fail_at |-> fail_at,
                  read_failed |-> read_fails,
                  unhashable |-> Cardinality(unhashable),
                  fault |-> (met > 0)]

\* truncate_staging_table and load_to_staging, followed by the rest of
\* execute_ingestion on that branch.
LoadFullRefresh(file, py_weekday, now) ==
    \E truncate_fails \in BOOLEAN :
      LET df == [i \in 1..Len(file) |-> DefaultedRow(file[i], now)]
          batches == NumBatches(Len(df), config.BATCH_SIZE)
      IN
      \E failed \in SUBSET (1..batches) :
        LET inserted == Committed(df, config.BATCH_SIZE, failed)
            met == Count(truncate_fails) + Cardinality(failed)
        IN
        /\ truncate_fails => failed = {}
        /\ faults + met <= MaxFaults
        /\ faults' = faults + met
        /\ staging' = IF truncate_fails THEN staging ELSE inserted
        /\ ingestion_result' =
             IF truncate_fails THEN Failed("Error truncating table")
             ELSE Success("FULL_REFRESH", Len(df), Len(inserted), 0, 0,
                          Len(df) - Len(inserted))
        /\ run' = History(file) @@
             [NoLoad EXCEPT !.today = py_weekday,
                            !.truncated = ~truncate_fails,
                            !.baseline = ActiveHashes(staging),
                            !.rows_lost = Len(df) - Len(inserted),
                            !.fault = (met > 0)]

\* DataIngestion.execute_ingestion on one CSV file on one day.
execute_ingestion ==
    /\ clock < MaxRuns
    /\ \E file \in environment.files, py_weekday \in environment.days :
         /\ csv' = file
         /\ IF should_use_incremental_load(config, py_weekday)
            THEN LoadIncremental(file, py_weekday, WallClock(clock + 1))
            ELSE LoadFullRefresh(file, py_weekday, WallClock(clock + 1))
    /\ clock' = clock + 1

\* main() of data_ingestion.py: the ingestion script run on its own.
IngestionMain ==
    /\ pc = "idle"
    /\ execute_ingestion
    /\ UNCHANGED <<config, environment, analytics, execution_log, pc,
                   validation_result, transformation_result, pass,
                   health>>

RunDataIngestionMutantIgnoresStatus ==
    /\ pc = "idle"
    /\ execute_ingestion
    /\ pc' = "data_validation"
    /\ UNCHANGED <<config, environment, analytics, execution_log,
                   validation_result, transformation_result, pass,
                   health>>

\* run_data_ingestion, the first task of a DAG run: a result whose status
\* is not SUCCESS fails the task and the DAG run stops.
RunDataIngestion ==
    /\ pc = "idle"
    /\ execute_ingestion
    /\ pc' = IF ingestion_result'.status = "SUCCESS"
             THEN "data_validation" ELSE "done"
    /\ UNCHANGED <<config, environment, analytics, execution_log,
                   validation_result, transformation_result, pass,
                   health>>


----------------------------------------------------------------------------
(* Transformation: from staged rows to analytics rows *)

\* str.title() on the names of the model.
Title(name) ==
    CASE name = "novoair" -> "Novoair"
      [] name = "biman" -> "Biman"
      [] OTHER -> name

\* DataTransformer.calculate_total_fare: a total that differs from base +
\* tax by more than 0.01 is replaced.
calculate_total_fare(rec) ==
    LET total_fare_calculated == rec.base_fare + rec.tax_surcharge
    IN  [rec EXCEPT !.total_fare =
            IF rec.total_fare # total_fare_calculated
            THEN total_fare_calculated ELSE rec.total_fare]

\* DataTransformer.clean_and_standardize: title case for the text columns.
\* (No row of the model has a null critical column; drop_duplicates compares
\* whole staged rows, and two staged rows never agree on their id.)
clean_and_standardize(rec) ==
    [rec EXCEPT !.airline = Title(rec.airline),
                !.source = Title(rec.source),
                !.destination = Title(rec.destination)]

Transform(rows) ==
    [i \in 1..Len(rows) |->
        clean_and_standardize(calculate_total_fare(rows[i].rec))]

\* The columns of the ON CONFLICT target.
BusinessKey(rec) ==
    <<rec.airline, rec.source, rec.destination, rec.date_of_journey,
      rec.departure_time>>

\* The identity key under which a staged record reaches the analytics table.
AnalyticsKey(rec) == BusinessKey(clean_and_standardize(rec))

\* DataTransformer.generate_record_hash
transformer_record_hash(rec, algorithm) ==
    Digest(algorithm, BusinessKey(rec))

\* Column defaults of flights_analytics for a freshly inserted row.
DefaultVersionNumber == 1

\* The row an INSERT creates from a transformed record; columns the
\* statement does not name take their defaults.
InsertedRow(rec, record_hash, now) ==
    [key |-> BusinessKey(rec), base_fare |-> rec.base_fare,
     tax_surcharge |-> rec.tax_surcharge, total_fare |-> rec.total_fare,
     stops |-> rec.stops, record_hash |-> record_hash,
     last_updated_date |-> now, is_active |-> TRUE,
     version_number |-> DefaultVersionNumber, first_seen_date |-> now]

ConflictUpdateMutantKeepsVersion(old, rec, record_hash, now) ==
    [old EXCEPT !.base_fare = rec.base_fare,
                !.tax_surcharge = rec.tax_surcharge,
                !.total_fare = rec.total_fare,
                !.stops = rec.stops,
                !.record_hash = record_hash,
                !.last_updated_date = now,
                !.is_active = TRUE]

\* ON CONFLICT (...) DO UPDATE SET ...
ConflictUpdate(old, rec, record_hash, now) ==
    [old EXCEPT !.base_fare = rec.base_fare,
                !.tax_surcharge = rec.tax_surcharge,
                !.total_fare = rec.total_fare,
                !.stops = rec.stops,
                !.record_hash = record_hash,
                !.last_updated_date = now,
                !.version_number = old.version_number + 1,
                !.is_active = TRUE]

KeysOf(batch) == { BusinessKey(batch[i]) : i \in 1..Len(batch) }

\* A statement that proposes two rows with one conflict key is rejected
\* ("ON CONFLICT DO UPDATE command cannot affect row a second time").
DistinctKeys(batch) == Cardinality(KeysOf(batch)) = Len(batch)

\* One INSERT ... ON CONFLICT DO UPDATE statement over a batch.
UpsertBatch(table, batch, algorithm, now) ==
    { row \in table : row.key \notin KeysOf(batch) } \cup
    { LET rec == batch[i]
          record_hash == transformer_record_hash(rec, algorithm)
          old == { row \in table : row.key = BusinessKey(rec) }
      IN  IF old = {}
          THEN InsertedRow(rec, record_hash, now)
          ELSE ConflictUpdate(CHOOSE row \in old : TRUE, rec, record_hash, now)
      : i \in 1..Len(batch) }

\* The batch loop of save_to_analytics_db_incremental: [table, done], done
\* the number of batches committed before the loop ended or raised.
RECURSIVE UpsertLoop(_, _, _, _, _, _)
UpsertLoop(table, batches, i, fail_at, algorithm, now) ==
    IF i > Len(batches) THEN [table |-> table, done |-> Len(batches)]
    ELSE IF i = fail_at \/ ~DistinctKeys(batches[i])
         THEN [table |-> table, done |-> i - 1]
         ELSE UpsertLoop(UpsertBatch(table, batches[i], algorithm, now),
                         batches, i + 1, fail_at, algorithm, now)

\* One to_sql(if_exists='append') call of save_to_analytics_db: plain
\* INSERTs, rejected as a whole when a key repeats.
AppendBatch(table, batch, now) ==
    table \cup { InsertedRow(batch[i], NULL, now) : i \in 1..Len(batch) }

Appendable(table, batch) ==
    /\ DistinctKeys(batch)
    /\ \A row \in table : row.key \notin KeysOf(batch)

\* The batch loop of save_to_analytics_db, after the TRUNCATE.
RECURSIVE AppendLoop(_, _, _, _, _)
AppendLoop(table, batches, i, fail_at, now) ==
    IF i > Len(batches) THEN [table |-> table, done |-> Len(batches)]
    ELSE IF i = fail_at \/ ~Appendable(table, batches[i])
         THEN [table |-> table, done |-> i - 1]
         ELSE AppendLoop(AppendBatch(table, batches[i], now),
                         batches, i + 1, fail_at, now)


----------------------------------------------------------------------------
(* Transformation task *)

\* SELECT MAX(execution_date) ... WHERE task_id = 'data_transformation'
\* AND status = 'SUCCESS', or datetime(1970, 1, 1).
LastRun(log) ==
    LET dates == { e.execution_date :
                     e \in { x \in log : x.task_id = "data_transformation"
                                         /\ x.status = "SUCCESS" } }
    IN  IF dates = {} THEN Epoch
        ELSE CHOOSE d \in dates : \A other \in dates : other <= d

\* DataTransformer.load_staging_data
load_staging_data(table, cfg) ==
    IF cfg.USE_INCREMENTAL_LOAD
    THEN SelectSeq(table, LAMBDA row : row.is_active)
    ELSE table

\* DataTransformer.load_staging_data_incremental: the rows ingested after
\* the last successful run, or every active row when that read fails.
load_staging_data_incremental(table, log, cfg, read_fails) ==
    IF read_fails THEN load_staging_data(table, cfg)
    ELSE SelectSeq(table, LAMBDA row :
            row.is_active /\ row.ingestion_timestamp > LastRun(log))

Transformed(load_mode, initial, inserted, updated) ==
    [status |-> "SUCCESS", load_mode |-> load_mode,
     initial_records |-> initial, final_records |-> initial,
     records_saved |-> inserted + updated, records_inserted |-> inserted,
     records_updated |-> updated]

\* The records of the batches a loop committed.
Written(df, size, done) == SubSeq(df, 1, Min(done * size, Len(df)))

\* save_to_analytics_db_incremental inside execute_transformation.
SaveIncremental(df, fallback, now) ==
    LET batches == Batches(df, config.BATCH_SIZE) IN
    \E fail_at \in 0..Len(batches) :
      LET out == UpsertLoop(analytics, batches, 1, fail_at,
                            config.HASH_ALGORITHM, now)
          written == Written(df, config.BATCH_SIZE, out.done)
          fresh == { k \in KeysOf(written) :
                       \A row \in analytics : row.key # k }
          met == Count(fallback) + Count(fail_at # 0)
      IN  /\ faults + met <= MaxFaults
          /\ faults' = faults + met
          /\ analytics' = out.table
          /\ transformation_result' =
               IF out.done = Len(batches)
               THEN Transformed("INCREMENTAL", Len(df), Cardinality(fresh),
                                Len(df) - Cardinality(fresh))
               ELSE Failed("Error in incremental save")
          /\ pass' = [use_incremental |-> TRUE, fallback |-> fallback,
                      loaded |-> Len(df), written |-> written,
                      truncated |-> FALSE]

\* save_to_analytics_db inside execute_transformation.
SaveFullRefresh(df, now) ==
    LET batches == Batches(df, config.BATCH_SIZE) IN
    \E truncate_fails \in BOOLEAN, fail_at \in 0..Len(batches) :
      LET out == AppendLoop({}, batches, 1, fail_at, now)
          written == Written(df, config.BATCH_SIZE, out.done)
          met == Count(truncate_fails) + Count(fail_at # 0)
      IN  /\ truncate_fails => fail_at = 0
          /\ faults + met <= MaxFaults
          /\ faults' = faults + met
          /\ analytics' = IF truncate_fails THEN analytics ELSE out.table
          /\ transformation_result' =
               IF ~truncate_fails /\ out.done = Len(batches)
               THEN Transformed("FULL_REFRESH", Len(df), Len(df), 0)
               ELSE Failed("Error saving to analytics database")
          /\ pass' = [use_incremental |-> FALSE, fallback |-> FALSE,
                      loaded |-> Len(df),
                      written |-> IF truncate_fails THEN <<>> ELSE written,
                      truncated |-> ~truncate_fails]

\* DataTransformer.execute_transformation as called by
\* run_data_transformation.
ExecuteTransformation ==
    /\ pc = "data_transformation"
    /\ \E read_fails \in BOOLEAN :
         LET use_incremental == config.USE_INCREMENTAL_LOAD
             rows == IF use_incremental
                     THEN load_staging_data_incremental(
                              staging, execution_log, config, read_fails)
                     ELSE load_staging_data(staging, config)
             df == Transform(rows)
         IN  /\ read_fails => use_incremental
             /\ IF Len(rows) = 0
                THEN /\ faults + Count(read_fails) <= MaxFaults
                     /\ faults' = faults + Count(read_fails)
                     /\ analytics' = analytics
                     /\ transformation_result' =
                          Transformed(IF use_incremental THEN "INCREMENTAL"
                                      ELSE "FULL_REFRESH", 0, 0, 0)
                     /\ pass' = [NoPass EXCEPT
                                   !.use_incremental = use_incremental,
                                   !.fallback = read_fails]
                ELSE IF use_incremental
                     THEN SaveIncremental(df, read_fails, WallClock(clock))
                     ELSE SaveFullRefresh(df, WallClock(clock))
    /\ pc' = IF transformation_result'.status = "SUCCESS"
             THEN "kpi_computation" ELSE "done"
    /\ UNCHANGED <<config, environment, clock, csv, staging, execution_log,
                   ingestion_result, run, validation_result, health>>

----------------------------------------------------------------------------
(* The other tasks of the DAG *)

\* check_duplicate_records: rows after the first with the same key columns.
Duplicates(table) ==
    { j \in 1..Len(table) :
        \E i \in 1..(j - 1) :
            BusinessKey(table[i].rec) = BusinessKey(table[j].rec) }

\* DataValidator.execute_validation on the records of the model (none has a
\* null, a mistyped, an unknown city or an inconsistent fare): ERROR when
\* staging cannot be read, WARNING on duplicates.
execute_validation(table, read_fails) ==
    IF read_fails THEN [status |-> "ERROR"]
    ELSE IF Duplicates(table) # {} THEN [status |-> "WARNING"]
    ELSE [status |-> "PASSED"]

\* run_data_validation: only the status FAILED fails the task.
RunDataValidation ==
    /\ pc = "data_validation"
    /\ \E read_fails \in BOOLEAN :
         /\ faults + Count(read_fails) <= MaxFaults
         /\ faults' = faults + Count(read_fails)
         /\ validation_result' = execute_validation(staging, read_fails)
    /\ pc' = IF validation_result'.status = "FAILED"
             THEN "done" ELSE "data_transformation"
    /\ UNCHANGED <<config, environment, clock, csv, staging, analytics,
                   execution_log, ingestion_result, run,
                   transformation_result, pass,
                   health>>

\* run_kpi_computation: reads flights_analytics and writes the KPI tables.
RunKpiComputation ==
    /\ pc = "kpi_computation"
    /\ \E fails \in BOOLEAN :
         /\ faults + Count(fails) <= MaxFaults
         /\ faults' = faults + Count(fails)
         /\ pc' = IF fails THEN "done" ELSE "log_pipeline_execution"
    /\ UNCHANGED <<config, environment, clock, csv, staging, analytics,
                   execution_log, ingestion_result, run, validation_result,
                   transformation_result, pass,
                   health>>

\* log_pipeline_execution: one transaction; of the rows it writes the model
\* keeps the one of the transformation task, the only one read back.
LogPipelineExecution ==
    /\ pc = "log_pipeline_execution"
    /\ \E fails \in BOOLEAN :
         /\ faults + Count(fails) <= MaxFaults
         /\ faults' = faults + Count(fails)
         /\ execution_log' =
              IF fails THEN execution_log
              ELSE execution_log \cup
                   { [task_id |-> "data_transformation",
                      execution_date |-> ExecutionDate(clock),
                      status |-> transformation_result.status] }
         /\ pc' = IF fails THEN "done" ELSE "monitor_health"
    /\ UNCHANGED <<config, environment, clock, csv, staging, analytics,
                   ingestion_result, run, validation_result,
                   transformation_result, pass,
                   health>>

\* PipelineMonitor._check_mysql_health and _check_postgres_health
check_connection_health(connects) ==
    IF connects THEN "HEALTHY" ELSE "UNHEALTHY"

\* The age limits of _check_data_freshness, in hours.
FRESH_HOURS == 24

STALE_HOURS == 48

\* PipelineMonitor._check_data_freshness on MAX(created_at): its age in
\* hours, "none" for an empty table, "raises" when the query fails.
check_data_freshness(last_update) ==
    CASE last_update.kind = "raises" -> "ERROR"
      [] last_update.kind = "none" -> "UNHEALTHY"
      [] OTHER -> IF last_update.age_hours < FRESH_HOURS THEN "HEALTHY"
                  ELSE IF last_update.age_hours < STALE_HOURS THEN "WARNING"
                  ELSE "UNHEALTHY"

\* PipelineMonitor._check_validation_status on the statuses of the checks
\* logged in the last 24 hours; <<"raises">> when the query fails.
check_validation_status(validations) ==
    IF validations = <<"raises">> THEN "ERROR"
    ELSE IF validations = <<>> THEN "WARNING"
    ELSE IF \E i \in DOMAIN validations : validations[i] = "FAILED"
         THEN "UNHEALTHY"
    ELSE "HEALTHY"

\* PipelineMonitor.get_pipeline_health_status
get_pipeline_health_status(probe) ==
    LET components ==
          [mysql_staging |-> check_connection_health(probe.mysql_up),
           postgres_analytics |-> check_connection_health(probe.postgres_up),
           data_freshness |-> check_data_freshness(probe.last_update),
           data_quality |-> check_validation_status(probe.validations)]
    IN  [overall_status |->
           IF \E c \in DOMAIN components : components[c] = "UNHEALTHY"
           THEN "UNHEALTHY"
           ELSE IF \E c \in DOMAIN components : components[c] = "WARNING"
                THEN "WARNING"
                ELSE "HEALTHY",
         components |-> components]

NoHealth == [overall_status |-> "NONE"]

\* monitor_pipeline_health: reads the stores and returns the overall status.
MonitorPipelineHealth ==
    /\ pc = "monitor_health"
    /\ pc' = "done"
    /\ \E probe \in environment.probes :
         health' = get_pipeline_health_status(probe)
    /\ UNCHANGED <<config, environment, clock, csv, faults, staging,
                   analytics, execution_log, ingestion_result, run,
                   validation_result, transformation_result, pass>>

\* The scheduler closes the DAG run; the next run starts with no XCom.
NextDagRun ==
    /\ pc = "done"
    /\ pc' = "idle"
    /\ ingestion_result' = NoResult
    /\ run' = NoLoad
    /\ validation_result' = NoResult
    /\ transformation_result' = NoResult
    /\ pass' = NoPass
    /\ health' = NoHealth
    /\ UNCHANGED <<config, environment, clock, csv, faults, staging,
                   analytics, execution_log>>

\* check_pipeline_health, the first task of the monitoring DAG, which runs
\* every 15 minutes between the runs of the pipeline.
CheckPipelineHealth ==
    /\ pc = "idle"
    /\ \E probe \in environment.probes :
         health' = get_pipeline_health_status(probe)
    /\ UNCHANGED <<config, environment, clock, csv, faults, staging,
                   analytics, execution_log, pc, ingestion_result, run,
                   validation_result, transformation_result, pass>>

\* The operator changes USE_INCREMENTAL_LOAD in the environment between
\* two runs.
SetEnvironment ==
    /\ pc = "idle"
    /\ clock < MaxRuns
    /\ config' = [config EXCEPT !.USE_INCREMENTAL_LOAD = ~@]
    /\ UNCHANGED <<environment, clock, csv, faults, staging, analytics,
                   execution_log, pc, ingestion_result, run,
                   validation_result, transformation_result, pass,
                   health>>

----------------------------------------------------------------------------
(* Specifications *)

\* What the health checks can find: whether each store answers, the age in
\* hours of the newest staged row, the statuses of the recent checks.
UpdateAges == {0, FRESH_HOURS - 1, FRESH_HOURS, STALE_HOURS - 1, STALE_HOURS}

Probes ==
    [mysql_up : BOOLEAN, postgres_up : BOOLEAN,
     last_update : [kind : {"none", "raises"}]
                     \cup [kind : {"age"}, age_hours : UpdateAges],
     validations : {<<>>, <<"raises">>, <<"PASSED">>, <<"WARNING">>,
                    <<"FAILED">>, <<"PASSED", "FAILED">>,
                    <<"PASSED", "WARNING">>}]

\* Right after a run that staged rows and logged passing checks.
HealthyProbes ==
    {[mysql_up |-> TRUE, postgres_up |-> TRUE,
      last_update |-> [kind |-> "age", age_hours |-> 0],
      validations |-> <<"PASSED">>]}

\* PipelineConfig with the default FULL_REFRESH_DAY and HASH_ALGORITHM.
Configs ==
    [USE_INCREMENTAL_LOAD : BOOLEAN, FULL_REFRESH_DAY : {0},
     HASH_ALGORITHM : {"md5"}, BATCH_SIZE : BatchSizes]

\* PipelineConfig with any FULL_REFRESH_DAY.
ConfigsAnyDay ==
    [USE_INCREMENTAL_LOAD : BOOLEAN, FULL_REFRESH_DAY : FullRefreshDays,
     HASH_ALGORITHM : {"md5"}, BATCH_SIZE : BatchSizes]

\* Staging as an earlier incremental load of a short file left it.
InitialStagings ==
    { [i \in 1..Len(file) |-> IncrementalRow(file[i], "md5", WallClock(0))] :
        file \in { f \in CsvFiles : Len(f) <= MaxInitialRows } }

Start ==
    /\ clock = 0
    /\ csv = <<>>
    /\ faults = 0
    /\ analytics = {}
    /\ execution_log = {}
    /\ pc = "idle"
    /\ ingestion_result = NoResult
    /\ run = NoLoad
    /\ validation_result = NoResult
    /\ transformation_result = NoResult
    /\ pass = NoPass
    /\ health = NoHealth

\* The DAG on empty stores.
Init ==
    /\ config \in Configs
    /\ environment = [files |-> CsvFiles, days |-> RunDays,
                      hash_faults |-> FALSE, probes |-> HealthyProbes]
    /\ staging = <<>>
    /\ Start

Next ==
    \/ SetEnvironment
    \/ RunDataIngestion
    \/ RunDataValidation
    \/ ExecuteTransformation
    \/ RunKpiComputation
    \/ LogPipelineExecution
    \/ MonitorPipelineHealth
    \/ NextDagRun

Spec == Init /\ [][Next]_vars

\* The ingestion script run repeatedly on a staging table already in use.
IngestionInit ==
    /\ config \in Configs
    /\ environment = [files |-> CsvFiles, days |-> RunDays,
                      hash_faults |-> FALSE, probes |-> HealthyProbes]
    /\ staging \in InitialStagings
    /\ Start

IngestionNext ==
    \/ SetEnvironment
    \/ IngestionMain

IngestionSpec == IngestionInit /\ [][IngestionNext]_vars

\* The ingestion script on every weekday under every FULL_REFRESH_DAY.
SelectorInit ==
    /\ config \in ConfigsAnyDay
    /\ environment = [files |-> { f \in CsvFiles : Len(f) <= MaxInitialRows },
                      days |-> PyWeekdays, hash_faults |-> FALSE, probes |-> HealthyProbes]
    /\ staging = <<>>
    /\ Start

SelectorSpec == SelectorInit /\ [][IngestionNext]_vars

\* PipelineConfig as the environment can set it: FULL_REFRESH_DAY is any
\* integer that int() accepts, HASH_ALGORITHM any string.
EnvRefreshDays == {0 - 1, 0, 7}

EnvHashAlgorithms == {"md5", "sha256", "sha1"}

ConfigsFromEnv ==
    [USE_INCREMENTAL_LOAD : BOOLEAN, FULL_REFRESH_DAY : EnvRefreshDays,
     HASH_ALGORITHM : EnvHashAlgorithms, BATCH_SIZE : BatchSizes]

\* The ingestion script under every such configuration.
EnvInit ==
    /\ config \in ConfigsFromEnv
    /\ environment = [files |-> { f \in CsvFiles : Len(f) <= MaxInitialRows },
                      days |-> RunDays, hash_faults |-> FALSE, probes |-> HealthyProbes]
    /\ staging = <<>>
    /\ Start

EnvSpec == EnvInit /\ [][IngestionNext]_vars

\* The ingestion script on batches with records whose key string cannot be
\* built or encoded.
HashFaultInit ==
    /\ config \in Configs
    /\ environment = [files |-> CsvFiles, days |-> RunDays,
                      hash_faults |-> TRUE, probes |-> HealthyProbes]
    /\ staging \in InitialStagings
    /\ Start

HashFaultSpec == HashFaultInit /\ [][IngestionNext]_vars

\* The monitoring DAG over every outcome of the four component checks.
HealthInit ==
    /\ config \in Configs
    /\ environment = [files |-> CsvFiles, days |-> RunDays,
                      hash_faults |-> FALSE, probes |-> Probes]
    /\ staging \in InitialStagings
    /\ Start

HealthNext == CheckPipelineHealth

HealthSpec == HealthInit /\ [][HealthNext]_vars

----------------------------------------------------------------------------
(* Properties of the classification and of the soft delete *)

Ingested == clock > 0 /\ ingestion_result.status # "NONE"

Succeeded == Ingested /\ ingestion_result.status = "SUCCESS"

\* The fingerprints of the rows of the CSV file the last run read.
CsvHashes ==
    { generate_record_hash(csv[i], config.HASH_ALGORITHM) : i \in 1..Len(csv) }

\* C1: an incremental load splits the incoming rows into the new ones,
\* whose fingerprint is not in the baseline it read, and the unchanged ones,
\* whose fingerprint is in it; the two groups are disjoint and together hold
\* every incoming fingerprint, and every incoming row is in one of them.
C1_ClassificationPartition ==
    (Ingested /\ run.use_incremental) =>
        /\ run.new_hashes = CsvHashes \ run.existing_hashes
        /\ run.unchanged_hashes = CsvHashes \cap run.existing_hashes
        /\ run.new_hashes \cup run.unchanged_hashes = CsvHashes
        /\ run.new_hashes \cap run.unchanged_hashes = {}
        /\ Succeeded =>
             run.new_rows + ingestion_result.rows_unchanged = Len(csv)

C1_Witness ==
    /\ Ingested /\ run.use_incremental
    /\ run.new_hashes # {}
    /\ run.unchanged_hashes # {}

\* C2: in every incremental load the fingerprints chosen for deactivation
\* are exactly those of the baseline that no row of the incoming batch
\* carries; a run that succeeds has deactivated exactly these, and the
\* baseline is the set of active fingerprints whenever its read succeeded.
C2_DeactivationCompleteness ==
    (Ingested /\ run.use_incremental) =>
        /\ run.hashes_to_deactivate = run.existing_hashes \ CsvHashes
        /\ Succeeded => run.deactivated = run.existing_hashes \ CsvHashes
        /\ ~run.fault => run.existing_hashes = run.baseline

C2_Witness ==
    /\ Succeeded /\ run.use_incremental
    /\ run.hashes_to_deactivate # {}
    /\ run.existing_hashes \cap CsvHashes # {}

\* Two incremental runs one after the other on the same CSV file, both
\* SUCCESS; the state is the one the second run leaves.
SecondOfTwoIncrementalRuns ==
    /\ Succeeded /\ run.use_incremental
    /\ run.same_csv
    /\ run.prev_mode = "INCREMENTAL"

NoOpRun ==
    /\ ingestion_result.rows_inserted = 0
    /\ run.new_hashes = {}
    /\ run.hashes_to_deactivate = {}
    /\ ingestion_result.rows_unchanged = Len(csv)

IncrementalStep == clock' = clock + 1 /\ run'.use_incremental

\* C4: after an incremental run that completed (SUCCESS) every staged row
\* whose fingerprint is in the deactivate set is inactive, and an
\* incremental run removes no staged row: every row is still there, with
\* its record, fingerprint and timestamp, so the row count never decreases.
C4_SoftDelete ==
    [][IncrementalStep =>
         /\ Len(staging') >= Len(staging)
         /\ \A i \in 1..Len(staging) :
              /\ staging'[i].rec = staging[i].rec
              /\ staging'[i].record_hash = staging[i].record_hash
              /\ staging'[i].ingestion_timestamp
                   = staging[i].ingestion_timestamp
         /\ ingestion_result'.status = "SUCCESS" =>
              \A i \in 1..Len(staging') :
                 staging'[i].record_hash \in run'.hashes_to_deactivate
                    => ~staging'[i].is_active]_vars

C4_Witness ==
    /\ Succeeded /\ run.use_incremental
    /\ run.hashes_to_deactivate # {}
    /\ \E i \in 1..Len(staging) :
         /\ staging[i].record_hash \in run.hashes_to_deactivate
         /\ ~staging[i].is_active
    /\ \E i \in 1..Len(staging) : staging[i].is_active

----------------------------------------------------------------------------
(* Properties of the analytics store *)

\* C5: for every identity key, the version number of its analytics record
\* never decreases from one state to the next, whichever save path the
\* transformation takes.
C5_VersionMonotonicity ==
    [][\A old \in analytics : \A new \in analytics' :
          new.key = old.key => new.version_number >= old.version_number]_vars

\* The number of records of a sequence with the identity key k.
Occurrences(df, k) == Cardinality({ i \in 1..Len(df) : BusinessKey(df[i]) = k })

IncrementalSaveStep ==
    /\ pc = "data_transformation"
    /\ pc' # pc
    /\ pass'.use_incremental

\* C6: each record save_to_analytics_db_incremental writes whose key matches
\* an existing row raises that row's version by one, leaves it active with
\* last-updated set to the time of the save and first-seen untouched; a
\* record whose key matches no row is inserted with version 1, active,
\* first-seen the time of the save.  Over a pass that writes n records of
\* a key: version v becomes v + n, and a key not yet there ends at n.
C6_VersionedUpsert ==
    [][IncrementalSaveStep =>
         \A k \in KeysOf(pass'.written) :
            LET n == Occurrences(pass'.written, k)
                old == { row \in analytics : row.key = k }
                new == { row \in analytics' : row.key = k }
            IN  /\ Cardinality(new) = 1
                /\ \A row \in new :
                     /\ row.is_active
                     /\ row.last_updated_date = WallClock(clock)
                     /\ \A before \in old :
                          /\ row.version_number = before.version_number + n
                          /\ row.first_seen_date = before.first_seen_date
                          /\ row.last_updated_date > before.last_updated_date
                     /\ old = {} =>
                          /\ row.version_number = 1 + (n - 1)
                          /\ row.first_seen_date = WallClock(clock)]_vars

C6_Witness ==
    /\ transformation_result.status = "SUCCESS"
    /\ pass.use_incremental
    /\ Len(pass.written) > 0
    /\ \E row \in analytics :
         /\ row.version_number = 2
         /\ row.first_seen_date < row.last_updated_date
    /\ \E row \in analytics :
         /\ row.version_number = 1
         /\ row.first_seen_date = WallClock(clock)

\* A staged row some active staged row shares its identity key with.
StillStaged(i) ==
    \E j \in 1..Len(staging) :
        /\ staging[j].is_active
        /\ AnalyticsKey(staging[j].rec) = AnalyticsKey(staging[i].rec)

\* C9: when the incremental ingestion of a run has deactivated a staged
\* record (and no active staged record has its identity key), the analytics
\* record with that key is inactive once the transformation pass of the
\* run has succeeded.
C9_DeactivationPropagation ==
    (run.use_incremental /\ transformation_result.status = "SUCCESS") =>
        \A i \in 1..Len(staging) :
           (staging[i].record_hash \in run.deactivated /\ ~StillStaged(i)) =>
               \A row \in analytics :
                  row.key = AnalyticsKey(staging[i].rec) => ~row.is_active

----------------------------------------------------------------------------
(* Properties of the load strategy *)

\* The strategy the claims describe, weekdays counted from Sunday = 0.
FullRefreshExpected(cfg, py_weekday) ==
    \/ ~cfg.USE_INCREMENTAL_LOAD
    \/ SundayIndex(py_weekday) = cfg.FULL_REFRESH_DAY

\* C7: the selector says FULL_REFRESH when the flag is disabled, and when
\* it is enabled and today's weekday is full_refresh_day, INCREMENTAL in
\* every other case; execute_ingestion truncates staging and bulk-loads
\* exactly when the selector says FULL_REFRESH and reports that load_mode.
C7_LoadStrategySelection ==
    [][clock' = clock + 1 =>
         LET full == FullRefreshExpected(config, run'.today) IN
         /\ run'.use_incremental = ~full
         /\ ingestion_result'.status = "SUCCESS" =>
              /\ run'.truncated = full
              /\ ingestion_result'.load_mode =
                   IF full THEN "FULL_REFRESH" ELSE "INCREMENTAL"]_vars

\* C8: with the flag enabled and weekdays counted Sunday = 0 ... Saturday
\* = 6, for every full_refresh_day the selector says FULL_REFRESH on
\* exactly the weekday whose index is full_refresh_day and INCREMENTAL on
\* the other six.
C8_DayOfWeekConvention ==
    [][(clock' = clock + 1 /\ config.USE_INCREMENTAL_LOAD) =>
         /\ run'.use_incremental
              = (SundayIndex(run'.today) # config.FULL_REFRESH_DAY)
         /\ Cardinality({ d \in PyWeekdays :
                            ~should_use_incremental_load(config, d) }) = 1]_vars

----------------------------------------------------------------------------
(* Properties of the failure handling of the ingestion *)

\* C11: when the deactivate set takes several batches and the UPDATE of one
\* batch fails, the other batches are still attempted, so that at most the
\* fingerprints of the failed batch stay active, and the run reports an
\* outcome instead of aborting with FAILED.
C11_BestEffortDeactivation ==
    (Ingested /\ run.use_incremental /\ run.fail_at # 0
       /\ Cardinality(run.hashes_to_deactivate) > DEACTIVATE_BATCH_SIZE) =>
        /\ Cardinality(run.hashes_to_deactivate \ run.deactivated)
             <= DEACTIVATE_BATCH_SIZE
        /\ ingestion_result.status = "SUCCESS"

\* C12: in the incremental path a failing insert batch is caught, its rows
\* are added to the failed-row count of the run, the later batches are
\* still attempted and the rows of the batches that succeeded are staged.
C12_InsertBatchFailureIsolation ==
    (Ingested /\ run.use_incremental /\ run.rows_lost > 0
       /\ run.fail_at = 0) =>
        /\ ingestion_result.status = "SUCCESS"
        /\ ingestion_result.rows_inserted = run.new_rows - run.rows_lost
        /\ ingestion_result.rows_failed = run.rows_lost

\* C13: when the read of the baseline fails inside the reader, the reader
\* hands back the empty set without raising: the run goes on to SUCCESS,
\* every incoming record is classified as new and nothing is unchanged, and
\* the deactivate set is empty, so that no staged row is deactivated.
C13_BaselineReadFailure ==
    (Ingested /\ run.use_incremental /\ run.read_failed) =>
        /\ run.existing_hashes = {}
        /\ ingestion_result.status = "SUCCESS"
        /\ run.new_hashes = run.incoming_hashes
        /\ run.new_rows = ingestion_result.total_records
        /\ ingestion_result.rows_unchanged = 0
        /\ run.hashes_to_deactivate = {}
        /\ run.deactivated = {}

\* A failed read of a baseline that shares a fingerprint with the batch and
\* holds one the batch has dropped.
C13_Witness ==
    /\ Ingested /\ run.use_incremental /\ run.read_failed
    /\ run.baseline \cap run.incoming_hashes # {}
    /\ run.baseline \ run.incoming_hashes # {}

----------------------------------------------------------------------------
(* Properties of the fingerprints *)

\* The identity fields of a staged record and of an analytics row.
IdentityFields(rec) ==
    <<rec.airline, rec.source, rec.destination, rec.date_of_journey,
      rec.departure_time, rec.base_fare, rec.total_fare>>

AnalyticsIdentityFields(row) == row.key \o <<row.base_fare, row.total_fare>>

\* C14: for each of the two fingerprint functions, two records get equal
\* fingerprints exactly when they agree on all seven identity fields
\* (airline, source, destination, date, departure time, base fare, total
\* fare): a difference in an identity field changes the fingerprint, a
\* difference in other fields only does not.  Checked on the fingerprints
\* the ingestion writes to the staging table and on those the transformer
\* writes to the analytics table, before and after every step.
C14_FingerprintSensitivity ==
    [][ /\ \A i \in DOMAIN staging, j \in DOMAIN staging' :
            (staging[i].record_hash # NULL
               /\ staging'[j].record_hash # NULL) =>
                ((staging[i].record_hash = staging'[j].record_hash)
                   <=> (IdentityFields(staging[i].rec)
                          = IdentityFields(staging'[j].rec)))
        /\ \A old \in analytics, new \in analytics' :
            (old.record_hash # NULL /\ new.record_hash # NULL) =>
                ((old.record_hash = new.record_hash)
                   <=> (AnalyticsIdentityFields(old)
                          = AnalyticsIdentityFields(new))) ]_vars

----------------------------------------------------------------------------
(* Properties of the configuration and of the run result *)

\* The settings the specification calls valid.
ValidConfiguration(cfg) ==
    /\ cfg.FULL_REFRESH_DAY \in 0..6
    /\ cfg.HASH_ALGORITHM \in {"md5", "sha256"}

\* C16: an ingestion run under a configuration whose full_refresh_day is
\* outside 0..6 or whose hash_algorithm is not supported fails, and it fails
\* before any write: the staging table is left as it was.
C16_ConfigurationFailFast ==
    [][ (clock' = clock + 1 /\ ~ValidConfiguration(config)) =>
            /\ ingestion_result'.status = "FAILED"
            /\ staging' = staging ]_vars

\* C17: the result of a successful incremental run reports the rows
\* inserted, updated and unchanged and the rows deactivated; rows_unchanged
\* is the number of incoming rows whose fingerprint is in the baseline and
\* rows_deactivated is the size of the deactivate set.
C17_RunResultCounts ==
    (Ingested /\ run.use_incremental
       /\ ingestion_result.status = "SUCCESS") =>
        /\ {"rows_inserted", "rows_updated", "rows_unchanged"}
             \subseteq DOMAIN ingestion_result
        /\ ingestion_result.rows_unchanged =
             Cardinality({ i \in DOMAIN csv :
                 generate_record_hash(csv[i], config.HASH_ALGORITHM)
                   \in run.existing_hashes })
        /\ "rows_deactivated" \in DOMAIN ingestion_result
        /\ ingestion_result.rows_deactivated =
             Cardinality(run.hashes_to_deactivate)

\* The staged rows the last ingestion run wrote.
StampedByRun ==
    { i \in DOMAIN staging :
        staging[i].ingestion_timestamp = WallClock(clock) }

\* C18: when the deactivation fails after insert batches of the same run
\* were committed, the run ends FAILED with the error in its result, and
\* nothing is rolled back: every row of a committed insert batch is in the
\* staging table, active and with its fingerprint.
C18_NoRollbackOnFatalFailure ==
    (Ingested /\ run.use_incremental /\ run.fail_at # 0) =>
        /\ ingestion_result.status = "FAILED"
        /\ "error" \in DOMAIN ingestion_result
        /\ ingestion_result.error = "Incremental load failed"
        /\ Cardinality(StampedByRun) = run.new_rows - run.rows_lost
        /\ \A i \in StampedByRun :
             /\ staging[i].is_active
             /\ staging[i].record_hash \in run.new_hashes

\* A failed deactivation in a run that had inserted a row.
C18_Witness ==
    /\ Ingested /\ run.use_incremental /\ run.fail_at # 0
    /\ ingestion_result.status = "FAILED"
    /\ StampedByRun # {}

C20_StagedRecordMetadata ==
    Ingested =>
        \A i \in StampedByRun :
            /\ staging[i].record_hash # NULL
            /\ staging[i].record_hash =
                 generate_record_hash(staging[i].rec, config.HASH_ALGORITHM)
            /\ staging[i].is_active
            /\ staging[i].ingestion_timestamp # NULL

----------------------------------------------------------------------------
(* Properties of the DAG run *)

\* The task that runs when the DAG run is at pc, and the position after it.
StageAfter(stage) ==
    CASE stage = "idle" -> "data_validation"
      [] stage = "data_validation" -> "data_transformation"
      [] stage = "data_transformation" -> "kpi_computation"
      [] stage = "kpi_computation" -> "log_pipeline_execution"
      [] stage = "log_pipeline_execution" -> "monitor_health"
      [] stage = "monitor_health" -> "done"
      [] OTHER -> "idle"

----------------------------------------------------------------------------
(* Further properties of the ingestion *)

\* The rows of the CSV file of the last run whose fingerprint is new, or is
\* not new, with respect to the baseline the run read.
CsvRowsClassified(new) ==
    { i \in DOMAIN csv :
        (generate_record_hash(csv[i], config.HASH_ALGORITHM)
           \notin run.existing_hashes) = new }

\* C22: the classifier does not deduplicate: rows of the batch that share a
\* fingerprint fall in the same class and are counted one by one, so that
\* the new rows and rows_unchanged are numbers of rows, not of fingerprints,
\* and every new row of a committed batch is inserted and counted.
C22_NoDeduplication ==
    (Succeeded /\ run.use_incremental) =>
        /\ run.new_rows = Cardinality(CsvRowsClassified(TRUE))
        /\ ingestion_result.rows_unchanged
             = Cardinality(CsvRowsClassified(FALSE))
        /\ ingestion_result.rows_inserted = run.new_rows - run.rows_lost
        /\ Cardinality(StampedByRun) = ingestion_result.rows_inserted

\* Two rows with one fingerprint, both new and both inserted.
C22_Witness ==
    /\ Succeeded /\ run.use_incremental
    /\ Len(csv) = 2 /\ Cardinality(run.incoming_hashes) = 1
    /\ Cardinality(run.new_hashes) = 1
    /\ ingestion_result.rows_inserted = 2
    /\ Cardinality(StampedByRun) = 2

\* C23: when computing the fingerprint of a record fails, its fingerprint is
\* the empty string and nothing is raised: the load goes on with that value
\* and the run is not aborted by the hashing failure (it ends SUCCESS unless
\* a deactivation batch fails).
C23_FingerprintFailureSentinel ==
    (Ingested /\ run.use_incremental /\ run.unhashable > 0) =>
        /\ EMPTY \in run.incoming_hashes
        /\ run.fail_at = 0 =>
             /\ ingestion_result.status = "SUCCESS"
             /\ ingestion_result.total_records = Len(csv)
             /\ run.new_rows + ingestion_result.rows_unchanged = Len(csv)

\* A batch of two records of which one could not be fingerprinted: the run
\* succeeded and staged both, one under the empty string.
C23_Witness ==
    /\ Ingested /\ run.use_incremental
    /\ run.unhashable = 1 /\ Len(csv) = 2
    /\ ingestion_result.status = "SUCCESS"
    /\ ingestion_result.rows_inserted = 2
    /\ \E i \in StampedByRun : staging[i].record_hash = EMPTY

\* The fingerprints of the staged rows that are active.
ActiveFingerprints ==
    { staging[i].record_hash :
        i \in { j \in DOMAIN staging :
                  staging[j].is_active /\ staging[j].record_hash # NULL } }

C25_IdempotenceAcrossLoadModes ==
    (Succeeded /\ run.use_incremental /\ run.same_csv
       /\ run.prev_mode = "FULL_REFRESH"
       /\ ~run.fault /\ ~run.prev_fault) =>
        /\ ingestion_result.rows_inserted = 0
        /\ Len(staging) = Len(csv)

\* C27: every ingestion run that returns SUCCESS, in either load mode and
\* with any pattern of failing insert batches, accounts for every row:
\* rows_inserted + rows_unchanged + rows_failed = total_records.
C27_RowAccounting ==
    Succeeded =>
        ingestion_result.rows_inserted + ingestion_result.rows_unchanged
          + ingestion_result.rows_failed = ingestion_result.total_records

----------------------------------------------------------------------------
(* Further properties of the DAG run *)

\* C26: in every DAG run the load mode of the transformation is the load
\* mode the ingestion of that run chose, for every value of the incremental
\* flag and every weekday.
C26_ConsistentLoadMode ==
    (ingestion_result.status = "SUCCESS"
       /\ transformation_result.status = "SUCCESS") =>
        transformation_result.load_mode = ingestion_result.load_mode

\* C28: the transformation of a DAG run starts only if the validation of
\* that run ended PASSED or WARNING; with any other status (FAILED, or ERROR
\* for an exception while validating) the validation task fails and neither
\* the transformation nor the KPI computation runs.
C28_ValidationGate ==
    pc \in {"data_transformation", "kpi_computation",
            "log_pipeline_execution", "monitor_health"}
      => validation_result.status \in {"PASSED", "WARNING"}

\* A DAG run in incremental mode on the CSV file of the run before it,
\* which was incremental too and went through to its log entry: the
\* ingestion found every row in the baseline and inserted nothing.
NoOpSecondRun ==
    /\ clock > 1 /\ Succeeded /\ run.use_incremental /\ run.same_csv
    /\ ~run.fault
    /\ Len(csv) > 0
    /\ ingestion_result.rows_inserted = 0
    /\ ingestion_result.rows_unchanged = Len(csv)
    /\ \A i \in DOMAIN staging : staging[i].record_hash # NULL
    /\ \E e \in execution_log :
         e.task_id = "data_transformation" /\ e.status = "SUCCESS"

\* C29: when the CSV file is identical in two consecutive DAG runs in
\* incremental mode, the transformation of the second run leaves the
\* version number of every analytics record as it was, also when it falls
\* back to loading all active staged records.
C29_NoVersionDrift ==
    [][ (pc = "data_transformation" /\ pc' # pc /\ NoOpSecondRun) =>
          \A old \in analytics : \A new \in analytics' :
              new.key = old.key
                => new.version_number = old.version_number ]_vars

----------------------------------------------------------------------------
(* Properties of the health monitor *)

ComponentStatuses == { health.components[c] : c \in DOMAIN health.components }

\* C30: the overall status of a health report is HEALTHY only if each of the
\* four component checks reported HEALTHY, is UNHEALTHY if a component is
\* UNHEALTHY, is WARNING if none is UNHEALTHY and one is WARNING, and is
\* always one of HEALTHY, WARNING, UNHEALTHY, ERROR.
C30_HealthAggregation ==
    health # NoHealth =>
        /\ health.overall_status
             \in {"HEALTHY", "WARNING", "UNHEALTHY", "ERROR"}
        /\ "UNHEALTHY" \in ComponentStatuses
             => health.overall_status = "UNHEALTHY"
        /\ ("UNHEALTHY" \notin ComponentStatuses
              /\ "WARNING" \in ComponentStatuses)
             => health.overall_status = "WARNING"
        /\ health.overall_status = "HEALTHY"
             => ComponentStatuses = {"HEALTHY"}

=============================================================================
